---- MODULE Spec2Model ----
(***************************************************************************)
(* StoreDemoDownloader (src/main.py): the wizard of USBSelectorApp and the *)
(* download engine behind its stage 5: start_downloads, start_next_download,*)
(* on_download_complete on the GUI thread, DownloadWorker.run on the pool   *)
(* threads, and the queued signals between them.                           *)
(***************************************************************************)
EXTENDS Integers, Sequences, FiniteSets, TLC

\* ---------------------------------------------------------------- bounds
\* Number of items of the remote catalog (data.json).
MaxItems == 3
\* Largest slider value explored (the slider itself goes to SliderMaximum).
MaxConcurrency == 2
\* Length of the longest list handed to start_downloads by a direct call.
MaxTasks == 3
\* Largest concurrent_downloads of a direct call.
MaxDirectConcurrency == 2
\* Size in bytes of a non-empty response body.
MaxBody == 5000

\* ------------------------------------------------------ program constants
SliderMinimum == 1
SliderMaximum == 15
InitialConcurrency == 3
ChunkSize == 4096
Stage5Index == 4
Stage6Index == 5
Stage7Index == 6

\* ------------------------------------------------------------ environment
Items == 1..MaxItems

\* The catalog served by the remote data.json: item 3 is the only Music
\* item, and the second Movies item repeats the title of the first one.
CategoryOf(i) == IF i = 3 THEN "Music" ELSE "Movies"
TitleOf(i) == IF i = 2 THEN 1 ELSE i
SizeGbOf(i) == 1
Categories == <<"Movies", "Music", "Gaming">>

\* Free space (GB) of the removable drives list_usb_devices can report: the
\* big one holds three items, the small one two.
SmallDriveFree == 2
BigDriveFree == 3
DriveLists == {<<>>, <<SmallDriveFree, BigDriveFree>>}

\* ---------------------------------------------------------------- helpers
Min(a, b) == IF a < b THEN a ELSE b
Max(a, b) == IF a > b THEN a ELSE b

RECURSIVE SumSizes(_)
SumSizes(s) == IF s = <<>> THEN 0 ELSE SizeGbOf(Head(s)) + SumSizes(Tail(s))

RECURSIVE Filter(_, _)
\* The items of sequence s that are in set keep, in the order of s.
Filter(s, keep) ==
    IF s = <<>> THEN <<>>
    ELSE IF Head(s) \in keep THEN <<Head(s)>> \o Filter(Tail(s), keep)
         ELSE Filter(Tail(s), keep)

Range(s) == {s[k] : k \in 1..Len(s)}

\* ------------------------------------------------------------------ state
VARIABLES
    stage,                   \* stacked_widget.currentIndex(): 0..6
    data,                    \* self.data: the catalog items as a sequence, <<>> when empty
    stage1_alive,            \* stage1_continue / refresh_button / comboBox not deleted
    stage1_continue_enabled, \* stage1_continue.isEnabled()
    usb_devices,             \* self.usb_devices: free space of each listed drive
    selected_usb,            \* self.selected_usb: free space of the chosen drive, -1 = None
    concurrent_downloads,    \* self.concurrent_downloads
    maxThreadCount,          \* self.threadpool.maxThreadCount()
    use_cache,               \* self.use_cache.isChecked()
    content_checkboxes,      \* self.content_checkboxes: the items offered in stage 3
    selected_content_items,  \* self.selected_content_items
    stage4_continue_enabled, \* stage4_continue.isEnabled()
    files,                   \* destination paths that exist under cache/
    started,                 \* how start_downloads ended: "no" before the call
                             \* (active_downloads is None), "returned", "raised"
    download_queue,          \* self.download_queue
    active_downloads,        \* self.active_downloads: the workers created, in order
    completed_downloads,     \* self.completed_downloads
    progress_bars,           \* self.progress_bars: the value of each bar
    wstate,                  \* per worker of active_downloads: the state of its run()
    events,                  \* GUI thread's queue of signal emissions not yet handled
    delivered,               \* per worker: how many result signals of it were handled
    stage6_calls,            \* number of calls of go_to_stage6
    timers,                  \* pending QTimer.singleShot(go_to_stage7)
    crashed                  \* the process was aborted by an unhandled exception

wizard_vars == <<stage, data, stage1_alive, stage1_continue_enabled, usb_devices,
                 selected_usb, concurrent_downloads, maxThreadCount, use_cache,
                 content_checkboxes, selected_content_items, stage4_continue_enabled>>
coordinator_vars == <<started, download_queue, active_downloads, completed_downloads,
                      progress_bars>>
engine_vars == <<files, wstate, events, delivered, stage6_calls, timers, crashed>>
vars == <<wizard_vars, coordinator_vars, engine_vars>>

\* ------------------------------------------------------------ the catalog
\* fetch_data() on a 200 answer: the items of data.json in file order.
Catalog == [i \in Items |-> i]

\* data.get(category, []): the catalog's items of one category, in order.
ItemsOfCategory(d, category) == Filter(d, {i \in Items : CategoryOf(i) = category})

RECURSIVE generate_content_items(_, _, _)
\* The (checkbox, item) pairs built for the checked categories, category by
\* category in the fixed order Movies, Music, Gaming (k walks Categories).
generate_content_items(d, checked, k) ==
    IF k > Len(Categories) THEN <<>>
    ELSE (IF Categories[k] \in checked THEN ItemsOfCategory(d, Categories[k]) ELSE <<>>)
         \o generate_content_items(d, checked, k + 1)

\* generate_summary() leaving the button enabled whatever the total size.
generate_summary_NoCheck(selected, usb_free_space) == TRUE

\* generate_summary(): whether "Confirm and Download" ends up enabled.
generate_summary(selected, usb_free_space) == ~(SumSizes(selected) > usb_free_space)

\* One download_urls entry: (url, file_path, file_name) of a selected item.
Task(i) == [url |-> i, file_path |-> <<CategoryOf(i), TitleOf(i)>>, file_name |-> TitleOf(i)]
\* The list built with one entry per destination path: an item whose path
\* an earlier selected item already has is left out.
DownloadUrls_OnePerPath(selected) ==
    LET first == {k \in 1..Len(selected) :
                    \A j \in 1..(k - 1) : Task(selected[j]).file_path # Task(selected[k]).file_path}
        kept == Filter([k \in 1..Len(selected) |-> k], first)
    IN [m \in 1..Len(kept) |-> Task(selected[kept[m]])]

\* download_urls of go_to_stage5: one entry per selected item, in order.
DownloadUrls(selected) == [k \in 1..Len(selected) |-> Task(selected[k])]

\* ------------------------------------------------------------ the workers
\* A worker whose run() has not begun, queued in the thread pool.
Pooled == [pc |-> "pooled", status |-> "", clen |-> -1, body |-> 0, dl |-> 0]
\* A worker after its result signal, the last statement of run(): the thread
\* is free again and run() keeps no locals.
AfterResult(pc) == [pc |-> pc, status |-> "", clen |-> -1, body |-> 0, dl |-> 0]

\* A worker whose try block raised: control is in the except branch.
Raised == [pc |-> "except", status |-> "", clen |-> -1, body |-> 0, dl |-> 0]

\* What the server can answer: a status, a declared content-length (-1 for
\* none) and the number of body bytes it really sends.
ShortBody == Min(ChunkSize, MaxBody - 1)
Responses ==
    {[status |-> "200", clen |-> b[1], body |-> b[2]] :
        b \in {<<-1, 0>>, <<-1, MaxBody>>, <<0, 0>>, <<MaxBody, MaxBody>>, <<MaxBody, ShortBody>>}}
    \cup {[status |-> "404", clen |-> -1, body |-> MaxBody]}

Workers == 1..Len(active_downloads)
\* Threads of the pool that are inside run().
ActiveThreads == Cardinality({w \in Workers : wstate[w].pc \notin {"pooled", "returned"}})
\* QThreadPool always uses at least one thread.
PoolCapacity == Max(1, maxThreadCount)
\* QThreadPool hands its queued runnables to free threads oldest first: the
\* queued worker w has a thread when fewer queued workers are older than it
\* than threads are free.
HasThread(w) ==
    /\ wstate[w].pc = "pooled"
    /\ Cardinality({v \in 1..(w - 1) : wstate[v].pc = "pooled"}) < PoolCapacity - ActiveThreads

\* ------------------------------------------------------- the coordinator
\* start_next_download taking the newest entry of the queue instead of the oldest.
start_next_download_Lifo(cs, bar_index) ==
    IF cs.q = <<>> THEN cs
    ELSE LET last == cs.q[Len(cs.q)] IN
         [q |-> SubSeq(cs.q, 1, Len(cs.q) - 1),
          a |-> Append(cs.a, [url |-> last.url, file_path |-> last.file_path,
                              file_name |-> last.file_name, bar_index |-> bar_index]),
          w |-> Append(cs.w, Pooled),
          d |-> Append(cs.d, 0)]

\* start_next_download dropping, when "Use Cache" is checked, a task whose
\* destination file exists.
start_next_download_SkipCached(cs, bar_index) ==
    IF cs.q = <<>> THEN cs
    ELSE IF use_cache /\ Head(cs.q).file_path \in files
    THEN [cs EXCEPT !.q = Tail(cs.q)]
    ELSE [q |-> Tail(cs.q),
          a |-> Append(cs.a, [url |-> Head(cs.q).url, file_path |-> Head(cs.q).file_path,
                              file_name |-> Head(cs.q).file_name, bar_index |-> bar_index]),
          w |-> Append(cs.w, Pooled),
          d |-> Append(cs.d, 0)]

\* start_next_download binding every worker to the first progress bar.
start_next_download_FirstBar(cs, bar_index) ==
    IF cs.q = <<>> THEN cs
    ELSE [q |-> Tail(cs.q),
          a |-> Append(cs.a, [url |-> Head(cs.q).url, file_path |-> Head(cs.q).file_path,
                              file_name |-> Head(cs.q).file_name, bar_index |-> 0]),
          w |-> Append(cs.w, Pooled),
          d |-> Append(cs.d, 0)]

\* start_next_download reading the head of the queue without removing it.
start_next_download_NoPop(cs, bar_index) ==
    IF cs.q = <<>> THEN cs
    ELSE [q |-> cs.q,
          a |-> Append(cs.a, [url |-> Head(cs.q).url, file_path |-> Head(cs.q).file_path,
                              file_name |-> Head(cs.q).file_name, bar_index |-> bar_index]),
          w |-> Append(cs.w, Pooled),
          d |-> Append(cs.d, 0)]

\* start_next_download(bar_index) on the coordinator's bookkeeping cs =
\* [q: download_queue, a: active_downloads, w: wstate, d: delivered].
start_next_download(cs, bar_index) ==
    IF cs.q = <<>> THEN cs
    ELSE [q |-> Tail(cs.q),
          a |-> Append(cs.a, [url |-> Head(cs.q).url, file_path |-> Head(cs.q).file_path,
                              file_name |-> Head(cs.q).file_name, bar_index |-> bar_index]),
          w |-> Append(cs.w, Pooled),
          d |-> Append(cs.d, 0)]

RECURSIVE StartLoop(_, _, _)
\* The loop of start_downloads: for i in range(n): start_next_download(i).
StartLoop(cs, i, n) ==
    IF i >= n THEN cs ELSE StartLoop(start_next_download(cs, i), i + 1, n)

\* One slot more than the limit allows.
SlotCount_OffByOne(c, download_urls) == Min(c, Len(download_urls)) + 1

\* One slot per unit of the limit, whatever the length of the list.
SlotCount_Limit(c, download_urls) == c

\* The number of progress bars (slots) start_downloads creates.
SlotCount(c, download_urls) == Min(c, Len(download_urls))

\* start_downloads(download_urls)
start_downloads(download_urls) ==
    LET n == SlotCount(concurrent_downloads, download_urls)
        cs == StartLoop([q |-> download_urls, a |-> <<>>, w |-> <<>>, d |-> <<>>], 0, n)
    IN /\ started' = "returned"
       /\ completed_downloads' = 0
       /\ progress_bars' = progress_bars \o [k \in 1..Max(n, 0) |-> 0]
       /\ download_queue' = cs.q
       /\ active_downloads' = cs.a
       /\ wstate' = cs.w
       /\ delivered' = cs.d

\* ------------------------------------------------------------------- Init
InitEngine ==
    /\ started = "no"
    /\ download_queue = <<>>
    /\ active_downloads = <<>>
    /\ completed_downloads = 0
    /\ progress_bars = <<>>
    /\ wstate = <<>>
    /\ events = <<>>
    /\ delivered = <<>>
    /\ stage6_calls = 0
    /\ timers = 0
    /\ crashed = FALSE

\* The state after USBSelectorApp.__init__: refresh_usb_list() and go_to_stage1().
Init ==
    /\ stage = 0
    /\ usb_devices \in DriveLists
    /\ data \in {<<>>, Catalog}
    /\ stage1_alive = (data # <<>>)
    /\ stage1_continue_enabled = (data # <<>>)
    /\ selected_usb = -1
    /\ concurrent_downloads = InitialConcurrency
    /\ maxThreadCount = InitialConcurrency
    /\ use_cache = TRUE
    /\ content_checkboxes = <<>>
    /\ selected_content_items = <<>>
    /\ stage4_continue_enabled = TRUE
    /\ files \in {{}, {Task(1).file_path}}
    /\ InitEngine

\* ------------------------------------------------------ wizard: handlers
\* The slider reachable from every page of the wizard.
update_concurrent_downloads_AnyPage ==
    /\ ~crashed
    /\ \E value \in SliderMinimum..Min(SliderMaximum, MaxConcurrency) :
        /\ value # concurrent_downloads
        /\ maxThreadCount' = value
        /\ concurrent_downloads' = value
    /\ UNCHANGED <<stage, data, stage1_alive, stage1_continue_enabled, usb_devices,
                   selected_usb, use_cache, content_checkboxes, selected_content_items,
                   stage4_continue_enabled, coordinator_vars, engine_vars>>

\* The slider's valueChanged.
update_concurrent_downloads ==
    /\ ~crashed /\ stage = 0
    /\ \E value \in SliderMinimum..Min(SliderMaximum, MaxConcurrency) :
        /\ value # concurrent_downloads
        /\ maxThreadCount' = value
        /\ concurrent_downloads' = value
    /\ UNCHANGED <<stage, data, stage1_alive, stage1_continue_enabled, usb_devices,
                   selected_usb, use_cache, content_checkboxes, selected_content_items,
                   stage4_continue_enabled, coordinator_vars, engine_vars>>

\* The user toggles the "Use Cache" checkbox; no handler is connected to it.
toggle_use_cache ==
    /\ ~crashed /\ stage = 0
    /\ use_cache' = ~use_cache
    /\ UNCHANGED <<stage, data, stage1_alive, stage1_continue_enabled, usb_devices,
                   selected_usb, concurrent_downloads, maxThreadCount, content_checkboxes,
                   selected_content_items, stage4_continue_enabled, coordinator_vars,
                   engine_vars>>

\* "Refresh USB List"
refresh_usb_list ==
    /\ ~crashed /\ stage = 0 /\ stage1_alive
    /\ usb_devices' \in DriveLists
    /\ UNCHANGED <<stage, data, stage1_alive, stage1_continue_enabled, selected_usb,
                   concurrent_downloads, maxThreadCount, use_cache, content_checkboxes,
                   selected_content_items, stage4_continue_enabled, coordinator_vars,
                   engine_vars>>

\* go_to_stage1 showing the drive page as usual when the catalog is empty.
go_to_stage1_NoErrorPage ==
    /\ ~crashed /\ stage = 1
    /\ \/ \* the catalog arrives
          /\ data' = Catalog
          /\ stage' = 0 /\ selected_usb' = -1
          /\ stage1_continue_enabled' = TRUE
          /\ UNCHANGED <<stage1_alive, crashed>>
       \/ \* a non-200 answer or an empty catalog: the error page
          /\ data' = <<>>
          /\ stage' = 0 /\ selected_usb' = -1
          /\ stage1_continue_enabled' = TRUE
          /\ UNCHANGED <<stage1_alive, crashed>>
       \/ \* requests.get raises inside the slot: the exception is unhandled, and
          \* PyQt either aborts the process or prints it and returns to the loop
          /\ stage' = 0 /\ selected_usb' = -1
          /\ stage1_continue_enabled' = FALSE
          /\ crashed' \in BOOLEAN
          /\ UNCHANGED <<data, stage1_alive>>
    /\ UNCHANGED <<usb_devices, concurrent_downloads, maxThreadCount, use_cache,
                   content_checkboxes, selected_content_items, stage4_continue_enabled,
                   files, wstate, events, delivered, stage6_calls, timers,
                   coordinator_vars>>

\* "Go Back" of stage 2: fetch_data() again.
go_to_stage1 ==
    /\ ~crashed /\ stage = 1
    /\ \/ \* the catalog arrives
          /\ data' = Catalog
          /\ stage' = 0 /\ selected_usb' = -1
          /\ stage1_continue_enabled' = TRUE
          /\ UNCHANGED <<stage1_alive, crashed>>
       \/ \* a non-200 answer or an empty catalog: the error page
          /\ data' = <<>>
          /\ stage' = 0 /\ selected_usb' = -1
          /\ stage1_continue_enabled' = FALSE
          /\ stage1_alive' = FALSE
          /\ UNCHANGED crashed
       \/ \* requests.get raises inside the slot: the exception is unhandled, and
          \* PyQt either aborts the process or prints it and returns to the loop
          /\ stage' = 0 /\ selected_usb' = -1
          /\ stage1_continue_enabled' = FALSE
          /\ crashed' \in BOOLEAN
          /\ UNCHANGED <<data, stage1_alive>>
    /\ UNCHANGED <<usb_devices, concurrent_downloads, maxThreadCount, use_cache,
                   content_checkboxes, selected_content_items, stage4_continue_enabled,
                   files, wstate, events, delivered, stage6_calls, timers,
                   coordinator_vars>>

\* "Continue" of stage 1, or "Go Back" of stage 3 (the combo box is as it was).
go_to_stage2 ==
    /\ ~crashed
    /\ \/ /\ stage = 0 /\ stage1_alive /\ stage1_continue_enabled
          /\ usb_devices # <<>>
          /\ \E index \in 1..Len(usb_devices) : selected_usb' = usb_devices[index]
          /\ stage' = 1
          /\ UNCHANGED usb_devices
       \/ /\ stage = 0 /\ stage1_alive /\ stage1_continue_enabled
          /\ usb_devices = <<>>
          /\ usb_devices' \in DriveLists
          /\ UNCHANGED <<stage, selected_usb>>
       \/ /\ stage = 2
          /\ stage' = 1
          /\ UNCHANGED <<usb_devices, selected_usb>>
    /\ UNCHANGED <<data, stage1_alive, stage1_continue_enabled, concurrent_downloads,
                   maxThreadCount, use_cache, content_checkboxes, selected_content_items,
                   stage4_continue_enabled, coordinator_vars, engine_vars>>

\* "Continue" of stage 2 with the category boxes as checked, or "Go Back" of
\* stage 4 (the category boxes are as they were, every content box is rebuilt).
go_to_stage3 ==
    /\ ~crashed
    /\ \/ /\ stage = 1
          /\ \E checked \in SUBSET Range(Categories) :
                /\ checked # {}
                /\ content_checkboxes' = generate_content_items(data, checked, 1)
          /\ stage' = 2
       \/ /\ stage = 1
          /\ UNCHANGED <<stage, content_checkboxes>>
       \/ /\ stage = 3
          /\ stage' = 2
          /\ UNCHANGED content_checkboxes
    /\ UNCHANGED <<data, stage1_alive, stage1_continue_enabled, usb_devices, selected_usb,
                   concurrent_downloads, maxThreadCount, use_cache, selected_content_items,
                   stage4_continue_enabled, coordinator_vars, engine_vars>>

\* "Continue" of stage 3 with the content boxes as checked.
go_to_stage4 ==
    /\ ~crashed /\ stage = 2
    /\ \E checked \in SUBSET Range(content_checkboxes) :
        LET selected == Filter(content_checkboxes, checked) IN
        /\ selected_content_items' = selected
        /\ IF selected = <<>>
           THEN UNCHANGED <<stage, stage4_continue_enabled>>
           ELSE /\ stage4_continue_enabled' = generate_summary(selected, selected_usb)
                /\ stage' = 3
    /\ UNCHANGED <<data, stage1_alive, stage1_continue_enabled, usb_devices, selected_usb,
                   concurrent_downloads, maxThreadCount, use_cache, content_checkboxes,
                   coordinator_vars, engine_vars>>

\* go_to_stage5 treating the OSError as a batch with nothing to download:
\* its except branch calls go_to_stage6.
go_to_stage5_FailureFinishes ==
    /\ ~crashed /\ stage = 3 /\ stage4_continue_enabled
    /\ \/ /\ files' = {}
          /\ stage' = Stage5Index
          /\ start_downloads(DownloadUrls(selected_content_items))
          /\ UNCHANGED <<stage6_calls, timers>>
       \/ /\ files' \in {files, {}}
          /\ stage' = Stage6Index
          /\ stage6_calls' = stage6_calls + 1
          /\ timers' = timers + 1
          /\ UNCHANGED <<coordinator_vars, wstate, delivered>>
    /\ UNCHANGED <<data, stage1_alive, stage1_continue_enabled, usb_devices, selected_usb,
                   concurrent_downloads, maxThreadCount, use_cache, content_checkboxes,
                   selected_content_items, stage4_continue_enabled, events, crashed>>

\* "Confirm and Download"
go_to_stage5 ==
    /\ ~crashed /\ stage = 3 /\ stage4_continue_enabled
    /\ stage' = Stage5Index
    /\ \/ \* the cache folders are created anew
          /\ files' = {}
          /\ start_downloads(DownloadUrls(selected_content_items))
       \/ \* os.makedirs / os.mkdir raises OSError
          /\ files' \in {files, {}}
          /\ UNCHANGED <<coordinator_vars, wstate, delivered>>
    /\ UNCHANGED <<data, stage1_alive, stage1_continue_enabled, usb_devices, selected_usb,
                   concurrent_downloads, maxThreadCount, use_cache, content_checkboxes,
                   selected_content_items, stage4_continue_enabled, events, stage6_calls,
                   timers, crashed>>

\* The single-shot timer of go_to_stage6 fires.
go_to_stage7 ==
    /\ ~crashed /\ timers > 0
    /\ timers' = timers - 1
    /\ stage' = Stage7Index
    /\ UNCHANGED <<data, stage1_alive, stage1_continue_enabled, usb_devices, selected_usb,
                   concurrent_downloads, maxThreadCount, use_cache, content_checkboxes,
                   selected_content_items, stage4_continue_enabled, coordinator_vars,
                   files, wstate, events, delivered, stage6_calls, crashed>>

\* --------------------------------------------------- DownloadWorker.run
\* signal.progress.emit(dl, total, file_name, progress_bar) of worker w
ProgressEvent(w, dl, total) == [type |-> "progress", w |-> w, dl |-> dl, total |-> total]
\* signal.result.emit(message) of worker w: "Finished ..." (ok) or "Error ..."
ResultEvent(w, ok) == [type |-> "result", w |-> w, ok |-> ok]

\* The message run() emits after the body was stored without an exception.
FinishedMessage(w) == ResultEvent(w, TRUE)
\* The except branch reporting a finished download.
ErrorMessage_AsFinished(w) == ResultEvent(w, TRUE)

\* The message of the except branch.
ErrorMessage(w) == ResultEvent(w, FALSE)

worker_frame == <<wizard_vars, coordinator_vars, delivered, stage6_calls, timers, crashed>>

\* run() begins on a pool thread: requests.get and, without an exception, the
\* headers read and the file opened.
run_request(w) ==
    /\ ~crashed
    /\ HasThread(w)
    /\ \/ \E r \in Responses :
            /\ wstate' = [wstate EXCEPT ![w] =
                    [pc |-> IF r.clen = -1 THEN "write"
                            ELSE IF r.body = 0 /\ r.clen = 0 THEN "result" ELSE "stream",
                     status |-> r.status, clen |-> r.clen, body |-> r.body, dl |-> 0]]
            /\ files' = files \cup {active_downloads[w].file_path}
            /\ UNCHANGED events
       \/ \* the request, the read of the body or open() raises
          /\ wstate' = [wstate EXCEPT ![w] = Raised]
          /\ UNCHANGED <<files, events>>
    /\ UNCHANGED worker_frame

\* The branch without content-length reporting dl as the other branch
\* initialises it, 0, against the size of the body.
run_write_all_ZeroDl(w) ==
    /\ ~crashed
    /\ wstate[w].pc = "write"
    /\ wstate' = [wstate EXCEPT ![w].pc = "result", ![w].dl = wstate[w].body]
    /\ events' = Append(events, ProgressEvent(w, 0, wstate[w].body))
    /\ UNCHANGED <<worker_frame, files>>

\* No content-length: the whole body is written and one progress signal emitted.
run_write_all(w) ==
    /\ ~crashed
    /\ wstate[w].pc = "write"
    /\ wstate' = [wstate EXCEPT ![w].pc = "result", ![w].dl = wstate[w].body]
    /\ events' = Append(events, ProgressEvent(w, wstate[w].body, wstate[w].body))
    /\ UNCHANGED <<worker_frame, files>>

\* The loop reporting the size of the chunk instead of the running total.
run_chunk_PerChunk(w) ==
    /\ ~crashed
    /\ wstate[w].pc = "stream"
    /\ wstate[w].dl < wstate[w].body
    /\ LET len == Min(ChunkSize, wstate[w].body - wstate[w].dl)
           dl == wstate[w].dl + len IN
        /\ wstate' = [wstate EXCEPT ![w].dl = dl,
                                    ![w].pc = IF dl = wstate[w].clen THEN "result" ELSE "stream"]
        /\ events' = Append(events, ProgressEvent(w, len, wstate[w].clen))
    /\ UNCHANGED <<worker_frame, files>>

\* One iteration of the iter_content loop.
run_chunk(w) ==
    /\ ~crashed
    /\ wstate[w].pc = "stream"
    /\ wstate[w].dl < wstate[w].body
    /\ LET dl == wstate[w].dl + Min(ChunkSize, wstate[w].body - wstate[w].dl) IN
        /\ wstate' = [wstate EXCEPT ![w].dl = dl,
                                    ![w].pc = IF dl = wstate[w].clen THEN "result" ELSE "stream"]
        /\ events' = Append(events, ProgressEvent(w, dl, wstate[w].clen))
    /\ UNCHANGED <<worker_frame, files>>

\* run() comparing the bytes received with the declared length before it
\* reports, and reporting an error when they differ.
run_finish_Checked(w) ==
    /\ ~crashed
    /\ \/ wstate[w].pc = "result"
       \/ wstate[w].pc = "stream" /\ wstate[w].dl = wstate[w].body
    /\ wstate' = [wstate EXCEPT ![w] = AfterResult("returned")]
    /\ events' = Append(events,
                    IF wstate[w].clen # -1 /\ wstate[w].dl # wstate[w].clen
                    THEN ErrorMessage(w) ELSE FinishedMessage(w))
    /\ UNCHANGED <<worker_frame, files>>

\* The result signal delivered ahead of the signals already queued, as a
\* direct connection would deliver it.
run_finish_Overtaking(w) ==
    /\ ~crashed
    /\ \/ wstate[w].pc = "result"
       \/ wstate[w].pc = "stream" /\ wstate[w].dl = wstate[w].body
    /\ wstate' = [wstate EXCEPT ![w] = AfterResult("returned")]
    /\ events' = <<FinishedMessage(w)>> \o events
    /\ UNCHANGED <<worker_frame, files>>

\* run() emitting the result signal of its try branch twice.
run_finish_Twice(w) ==
    /\ ~crashed
    /\ \/ wstate[w].pc = "result"
       \/ wstate[w].pc = "stream" /\ wstate[w].dl = wstate[w].body
    /\ wstate' = [wstate EXCEPT ![w] = AfterResult("returned")]
    /\ events' = Append(Append(events, FinishedMessage(w)), FinishedMessage(w))
    /\ UNCHANGED <<worker_frame, files>>

\* The body ended: run() emits the result signal of its try branch.
run_finish(w) ==
    /\ ~crashed
    /\ \/ wstate[w].pc = "result"
       \/ wstate[w].pc = "stream" /\ wstate[w].dl = wstate[w].body
    /\ wstate' = [wstate EXCEPT ![w] = AfterResult("returned")]
    /\ events' = Append(events, FinishedMessage(w))
    /\ UNCHANGED <<worker_frame, files>>

\* An exception while the body is read or written.
run_raise(w) ==
    /\ ~crashed
    /\ wstate[w].pc \in {"write", "stream"}
    /\ wstate' = [wstate EXCEPT ![w] = Raised]
    /\ UNCHANGED <<worker_frame, files, events>>

\* The except branch counting the download itself, from the worker thread.
run_except_Counting(w) ==
    /\ ~crashed
    /\ wstate[w].pc = "except"
    /\ wstate' = [wstate EXCEPT ![w] = AfterResult("returned")]
    /\ events' = Append(events, ErrorMessage(w))
    /\ completed_downloads' = completed_downloads + 1
    /\ UNCHANGED <<wizard_vars, started, download_queue, active_downloads, progress_bars,
                   delivered, stage6_calls, timers, crashed, files>>

\* The except branch: the result signal carries the error.
run_except(w) ==
    /\ ~crashed
    /\ wstate[w].pc = "except"
    /\ wstate' = [wstate EXCEPT ![w] = AfterResult("returned")]
    /\ events' = Append(events, ErrorMessage(w))
    /\ UNCHANGED <<worker_frame, files>>

\* A step of some worker thread.
DownloadWorker_run ==
    \E w \in Workers :
        \/ run_request(w)
        \/ run_write_all(w)
        \/ run_chunk(w)
        \/ run_finish(w)
        \/ run_raise(w)
        \/ run_except(w)

\* ------------------------------------------------ GUI thread: the slots
\* math.floor((downloaded_mb / total_mb) * 100)
Percent(dl, total) == (dl * 100) \div total

\* update_progress, the slot of a worker's progress signal.
update_progress ==
    /\ ~crashed
    /\ events # <<>> /\ Head(events).type = "progress"
    /\ events' = Tail(events)
    /\ LET e == Head(events)
           bar == active_downloads[e.w].bar_index + 1
       IN IF e.total = 0
          THEN \* ZeroDivisionError in the slot: aborted, or printed and dropped
               /\ crashed' \in BOOLEAN
               /\ UNCHANGED progress_bars
          ELSE /\ progress_bars' = [progress_bars EXCEPT ![bar] = Percent(e.dl, e.total)]
               /\ UNCHANGED crashed
    /\ UNCHANGED <<wizard_vars, started, download_queue, active_downloads,
                   completed_downloads, files, wstate, delivered, stage6_calls, timers>>

\* The completion check against the workers created so far.
ExpectedTotal_Launched == Len(active_downloads)
\* The completion check one short of the selection.
ExpectedTotal_OneShort == Len(selected_content_items) - 1
\* The completion check one beyond the selection.
ExpectedTotal_OneMore == Len(selected_content_items) + 1

\* The total on_download_complete compares the count with.
ExpectedTotal == Len(selected_content_items)

\* on_download_complete(bar_index, message), the slot of a worker's result signal.
on_download_complete ==
    /\ ~crashed
    /\ events # <<>> /\ Head(events).type = "result"
    /\ events' = Tail(events)
    /\ LET e == Head(events)
           cs == start_next_download(
                    [q |-> download_queue, a |-> active_downloads, w |-> wstate,
                     d |-> [delivered EXCEPT ![e.w] = delivered[e.w] + 1]],
                    active_downloads[e.w].bar_index)
       IN /\ download_queue' = cs.q
          /\ active_downloads' = cs.a
          /\ wstate' = cs.w
          /\ delivered' = cs.d
          /\ completed_downloads' = completed_downloads + 1
          /\ IF completed_downloads + 1 = ExpectedTotal
             THEN \* go_to_stage6()
                  /\ stage' = Stage6Index
                  /\ stage6_calls' = stage6_calls + 1
                  /\ timers' = timers + 1
             ELSE UNCHANGED <<stage, stage6_calls, timers>>
    /\ UNCHANGED <<data, stage1_alive, stage1_continue_enabled, usb_devices, selected_usb,
                   concurrent_downloads, maxThreadCount, use_cache, content_checkboxes,
                   selected_content_items, stage4_continue_enabled, started, progress_bars,
                   files, crashed>>

\* ------------------------------------------------------- specifications
Next ==
    \/ update_concurrent_downloads
    \/ toggle_use_cache
    \/ refresh_usb_list
    \/ go_to_stage1
    \/ go_to_stage2
    \/ go_to_stage3
    \/ go_to_stage4
    \/ go_to_stage5
    \/ go_to_stage7
    \/ DownloadWorker_run
    \/ update_progress
    \/ on_download_complete

Spec == Init /\ [][Next]_vars

\* ------------------------------------------- start_downloads called directly
\* A driver holds a constructed window, sets the selection and the
\* concurrency, and calls start_downloads itself with a task list.
InitDirect ==
    /\ stage = 3
    /\ usb_devices = <<SmallDriveFree, BigDriveFree>>
    /\ data = Catalog
    /\ stage1_alive = TRUE
    /\ stage1_continue_enabled = TRUE
    /\ selected_usb = BigDriveFree
    /\ concurrent_downloads \in 0..MaxDirectConcurrency
    /\ maxThreadCount = concurrent_downloads
    /\ use_cache = TRUE
    /\ content_checkboxes = Catalog
    /\ selected_content_items \in {[k \in 1..n |-> k] : n \in 0..(MaxTasks - 1)}
    /\ stage4_continue_enabled = TRUE
    /\ files = {}
    /\ InitEngine

\* start_downloads(download_urls) with the list built from the selection, or
\* with that list and one more task.
direct_start_downloads ==
    /\ ~crashed /\ started = "no"
    /\ \E extra \in {<<>>, <<Len(selected_content_items) + 1>>} :
        start_downloads(DownloadUrls(selected_content_items \o extra))
    /\ UNCHANGED <<wizard_vars, files, events, stage6_calls, timers, crashed>>

NextDirect ==
    \/ direct_start_downloads
    \/ go_to_stage7
    \/ DownloadWorker_run
    \/ update_progress
    \/ on_download_complete

SpecDirect == InitDirect /\ [][NextDirect]_vars

\* The GUI thread keeps taking the queued signals off its event queue and
\* the pool threads keep running; the user is free to stop clicking.
LiveSpec ==
    /\ Spec
    /\ WF_vars(DownloadWorker_run)
    /\ WF_vars(update_progress)
    /\ WF_vars(on_download_complete)
    /\ WF_vars(go_to_stage7)

\* ================================================================ claims
\* Workers started whose result signal has not been handled: occupied slots.
Occupied == Cardinality({w \in Workers : delivered[w] = 0})
\* Result signals of worker w emitted so far: handled or still queued.
ResultsOf(w) ==
    delivered[w]
    + Cardinality({k \in 1..Len(events) : events[k].type = "result" /\ events[k].w = w})
\* A step of the GUI thread that takes a result signal off the queue.
HandlesResult ==
    /\ events # <<>> /\ Head(events).type = "result"
    /\ events' = Tail(events)
\* The workers a step launches.
Launched == (Len(active_downloads) + 1)..Len(active_downloads')

\* C1: with a limit c and a list of L tasks, the number of workers started
\* whose terminal event has not been delivered never exceeds min(c, L).
C1_OccupiedAtMostMin ==
    Occupied <= Min(concurrent_downloads, Len(selected_content_items))

\* C1 witness: the limit is reached again after a refill, with limit 2 and a
\* task of the list already terminal.
C1_Witness ==
    /\ concurrent_downloads = 2
    /\ Len(selected_content_items) = 3
    /\ Occupied = 2
    /\ \E w \in Workers : delivered[w] = 1

\* C2: every task delivers at most one terminal event (never a success and a
\* failure, never two), and once batch-complete has fired every task of the
\* selection has delivered exactly one, so the terminal events received are
\* as many as the total.
C2_ExactlyOneTerminalEvent ==
    /\ \A w \in Workers : ResultsOf(w) <= 1
    /\ stage6_calls > 0 =>
          /\ Len(active_downloads) = Len(selected_content_items)
          /\ \A w \in Workers :
                /\ active_downloads[w].url = selected_content_items[w]
                /\ delivered[w] = 1
          /\ completed_downloads = Len(selected_content_items)

\* C2 witness: batch-complete has fired for a three-task batch on two slots.
C2_Witness ==
    /\ stage6_calls = 1
    /\ Len(selected_content_items) = 3
    /\ concurrent_downloads = 2

\* C3: batch-complete fires at most once, and only when every task of the
\* list handed to start_downloads has delivered its terminal event: none is
\* still queued or in flight, also when the list holds one task more than
\* the selection.
C3_BatchCompleteAfterLastTask ==
    /\ stage6_calls <= 1
    /\ stage6_calls > 0 =>
          /\ download_queue = <<>>
          /\ \A w \in Workers : delivered[w] >= 1

\* C4: workers are launched in the order of the task list: the workers
\* created so far are the first tasks of the selection, in order, and the
\* queue is the rest of it, whichever slot was freed.
C4_FifoStartOrder ==
    started # "no" =>
        /\ \A w \in Workers : active_downloads[w].url = selected_content_items[w]
        /\ \A k \in 1..Len(download_queue) :
              download_queue[k].url = selected_content_items[Len(active_downloads) + k]
        /\ Len(active_downloads) + Len(download_queue) = Len(selected_content_items)

\* C4 witness: on two slots the second task ends first and the third task
\* of the list is launched on its slot while the first is still in flight.
C4_Witness ==
    /\ concurrent_downloads = 2
    /\ Len(active_downloads) = 3
    /\ delivered[1] = 0 /\ delivered[2] = 1
    /\ active_downloads[3].bar_index = 1
    /\ active_downloads[3].url = selected_content_items[3]

\* C5: once a run is started, and as long as the process is not aborted,
\* batch-complete eventually fires, whatever the order of the results.
C5_BatchCompleteEventually ==
    (started # "no") ~> (stage6_calls > 0 \/ crashed)

\* C5 witness: batch-complete has fired for three tasks on two slots, the
\* third launched on the second slot: the second task's terminal event came
\* before the first one's.
C5_Witness ==
    /\ stage6_calls = 1
    /\ concurrent_downloads = 2
    /\ Len(active_downloads) = 3
    /\ active_downloads[3].bar_index = 1

\* C6: a worker in its except branch emits one failure event and nothing
\* else, without touching the process, the other workers or the queue; the
\* failure event, when handled, is counted and refills the slot it frees
\* with the head of the queue, and leaves the other workers alone.
C6_FailureIsOnlyATerminalEvent ==
    [][/\ \A w \in Workers :
            (wstate[w].pc = "except" /\ wstate'[w].pc # "except") =>
                /\ events' = Append(events, [type |-> "result", w |-> w, ok |-> FALSE])
                /\ wstate'[w].pc = "returned"
                /\ crashed' = crashed
                /\ \A v \in Workers \ {w} : wstate'[v] = wstate[v]
                /\ UNCHANGED <<download_queue, active_downloads, completed_downloads,
                               delivered, stage6_calls>>
       /\ (HandlesResult /\ ~Head(events).ok) =>
            LET w == Head(events).w IN
                /\ delivered'[w] = delivered[w] + 1
                /\ completed_downloads' = completed_downloads + 1
                /\ crashed' = crashed
                /\ \A v \in Workers : wstate'[v] = wstate[v]
                /\ IF download_queue = <<>>
                   THEN UNCHANGED <<download_queue, active_downloads>>
                   ELSE /\ download_queue' = Tail(download_queue)
                        /\ Len(active_downloads') = Len(active_downloads) + 1
                        /\ active_downloads'[Len(active_downloads')].url = Head(download_queue).url
                        /\ active_downloads'[Len(active_downloads')].bar_index
                              = active_downloads[w].bar_index
                        /\ wstate'[Len(active_downloads')].pc = "pooled"
      ]_vars

\* C6 witness: a failure event is about to be handled while another worker
\* is streaming and a task is still queued.
C6_Witness ==
    /\ events # <<>> /\ Head(events).type = "result" /\ ~Head(events).ok
    /\ download_queue # <<>>
    /\ \E v \in Workers : wstate[v].pc = "stream" /\ wstate[v].dl > 0

\* A step of a worker thread: a worker that exists changes its state.
WorkerStep == \E w \in Workers : wstate'[w] # wstate[w]

\* C7: a step of a worker leaves download_queue, active_downloads,
\* completed_downloads and the list of progress bars unchanged; they change
\* only in start_downloads and in on_download_complete, one handler a step.
C7_OnlyCoordinatorWritesBookkeeping ==
    [][/\ WorkerStep =>
            UNCHANGED <<download_queue, active_downloads, completed_downloads,
                        progress_bars>>
       /\ (\/ download_queue' # download_queue
           \/ active_downloads' # active_downloads
           \/ completed_downloads' # completed_downloads
           \/ Len(progress_bars') # Len(progress_bars)) =>
            (\/ started = "no" /\ started' # "no"
             \/ HandlesResult)
      ]_vars

\* C7 witness: a worker has emitted progress while the coordinator has
\* already counted another worker's result and tasks are queued.
C7_Witness ==
    /\ completed_downloads = 1
    /\ download_queue # <<>>
    /\ \E k \in 1..Len(events) : events[k].type = "progress"

\* C8: with "Use Cache" checked, no worker is launched for a task whose
\* destination file exists.
C8_CachedTaskNotLaunched ==
    [][\A w \in Launched :
            ~(use_cache /\ active_downloads'[w].file_path \in files')]_vars

\* C9: a start with an empty task list or a concurrency below 1 ends with a
\* configuration error.
C9_ConfigErrorOnBadStart ==
    (started # "no"
        /\ (Len(active_downloads) + Len(download_queue) = 0 \/ concurrent_downloads < 1))
    => started = "raised"

\* C10: the result a worker emits for a response with a non-2xx status is a
\* failure, never a success.
C10_Non2xxIsFailure ==
    [][\A w \in Workers :
            (/\ wstate[w].status = "404"
             /\ Len(events') = Len(events) + 1
             /\ events'[Len(events')].type = "result"
             /\ events'[Len(events')].w = w)
            => ~events'[Len(events')].ok]_vars

\* A step of the GUI thread that takes a progress signal off the queue.
HandlesProgress ==
    /\ events # <<>> /\ Head(events).type = "progress"
    /\ events' = Tail(events)

\* C11: handling a progress event never divides by zero: the process is not
\* aborted by it, and an event with a total of 0 (an empty body without a
\* declared length) sets its progress bar to 100.
C11_ProgressGuardedAgainstZeroTotal ==
    [][HandlesProgress =>
            /\ crashed' = crashed
            /\ Head(events).total = 0 =>
                  progress_bars'[active_downloads[Head(events).w].bar_index + 1] = 100
      ]_vars

\* ------------------------------------------ a result signal emitted twice
\* The confirm page of a constructed window, ready for "Confirm and Download".
InitDuplicate ==
    /\ InitDirect
    /\ concurrent_downloads >= 1
    /\ selected_content_items # <<>>

\* The result signal of a worker whose run() has returned is emitted once
\* more: on_download_complete is invoked a second time for the same task.
duplicate_result ==
    /\ ~crashed
    /\ \E w \in Workers :
        /\ wstate[w].pc = "returned"
        /\ delivered[w] + Cardinality({k \in 1..Len(events) :
                events[k].type = "result" /\ events[k].w = w}) = 1
        /\ events' = Append(events, FinishedMessage(w))
    /\ UNCHANGED <<wizard_vars, coordinator_vars, files, wstate, delivered, stage6_calls,
                   timers, crashed>>

NextDuplicate ==
    \/ go_to_stage5
    \/ go_to_stage7
    \/ DownloadWorker_run
    \/ update_progress
    \/ on_download_complete
    \/ duplicate_result

SpecDuplicate == InitDuplicate /\ [][NextDuplicate]_vars

\* C12: handling a second terminal event of a task that already delivered
\* one neither counts it nor fires batch-complete.
C12_DuplicateTerminalEventIgnored ==
    [][(HandlesResult /\ delivered[Head(events).w] >= 1) =>
            /\ completed_downloads' = completed_downloads
            /\ stage6_calls' = stage6_calls
      ]_vars

\* The positions of worker w's progress events in a queue of events.
ProgressOf(q, w) == {k \in 1..Len(q) : q[k].type = "progress" /\ q[k].w = w}
\* Worker w is inside run() after its request was answered.
Transferring(ws, w) == ws[w].pc \in {"write", "stream", "result"}

\* C13: the coordinator receives a worker's progress events in the order of
\* their emission, and each emission carries at least the bytes of every
\* earlier one: the events of a worker still queued are in non-decreasing
\* order of bytes and none exceeds the worker's running total, and an event
\* received is no larger than those still queued and than the running total
\* the next emission starts from.
C13_ProgressNonDecreasing ==
    [][\A w \in 1..Len(active_downloads') :
            /\ \A j, k \in ProgressOf(events', w) : j < k => events'[j].dl <= events'[k].dl
            /\ Transferring(wstate', w) =>
                  \A k \in ProgressOf(events', w) : events'[k].dl <= wstate'[w].dl
            /\ (HandlesProgress /\ Head(events).w = w) =>
                  /\ \A k \in ProgressOf(events', w) : Head(events).dl <= events'[k].dl
                  /\ Transferring(wstate', w) => Head(events).dl <= wstate'[w].dl
      ]_vars

\* C13 witness: the first progress event of a streamed download has been
\* received and its second one, with more bytes, is queued behind it.
C13_Witness ==
    \E w \in Workers :
        /\ wstate[w].clen = MaxBody /\ wstate[w].dl = MaxBody
        /\ progress_bars[active_downloads[w].bar_index + 1] = Percent(ChunkSize, MaxBody)
        /\ \E k \in ProgressOf(events, w) : events[k].dl = MaxBody

\* The step appends a signal of worker w of the given type to the GUI queue.
Emits(w, type) ==
    /\ Len(events') = Len(events) + 1
    /\ events'[Len(events')].type = type
    /\ events'[Len(events')].w = w
\* The positions of worker w's result events in a queue of events.
ResultPositions(q, w) == {k \in 1..Len(q) : q[k].type = "result" /\ q[k].w = w}

\* C14: a worker whose response has no content-length emits its progress
\* event in the one step that stores the body, with bytes = total = the size
\* of the body; it emits no progress event before or after that step, and
\* its success event only after it, so that the progress event is queued
\* ahead of the success event.
C14_SingleProgressForUnknownLength ==
    [][\A w \in Workers :
            /\ (wstate[w].status # "" /\ wstate[w].clen = -1) =>
                  /\ Emits(w, "progress") =>
                        /\ wstate[w].pc = "write" /\ wstate'[w].pc = "result"
                        /\ events'[Len(events')].dl = wstate[w].body
                        /\ events'[Len(events')].total = wstate[w].body
                  /\ (wstate[w].pc = "write" /\ wstate'[w].pc = "result") =>
                        Emits(w, "progress")
                  /\ (Emits(w, "result") /\ events'[Len(events')].ok) =>
                        wstate[w].pc = "result"
            /\ (wstate[w].status = "" /\ wstate'[w].status # "" /\ wstate'[w].clen = -1) =>
                  /\ wstate'[w].pc = "write"
                  /\ ProgressOf(events', w) = {}
            /\ \A j \in ProgressOf(events', w), k \in ResultPositions(events', w) : j < k
      ]_vars

\* C14 witness: the only worker of a run got a body without content-length,
\* and its one progress event, bytes = total = the body's size, is queued
\* ahead of its success event.
C14_Witness ==
    /\ Len(active_downloads) = 1
    /\ events = <<[type |-> "progress", w |-> 1, dl |-> MaxBody, total |-> MaxBody],
                  [type |-> "result", w |-> 1, ok |-> TRUE]>>
    /\ progress_bars = <<0>>

\* C15: a run is started only with the capacity validated: the sizes of the
\* selected items sum to no more than the free space recorded for the
\* selected drive; on the confirm page with a larger sum the button is
\* disabled, and nothing is queued or launched.
C15_RunStartedOnlyWithCapacity ==
    /\ started # "no" => SumSizes(selected_content_items) <= selected_usb
    /\ (stage = 3 /\ SumSizes(selected_content_items) > selected_usb) =>
          /\ ~stage4_continue_enabled
          /\ started = "no"
          /\ download_queue = <<>> /\ active_downloads = <<>>

\* C15 witness: a run was started whose selection fills the small drive
\* exactly.
C15_Witness ==
    /\ started # "no"
    /\ selected_usb = SmallDriveFree
    /\ SumSizes(selected_content_items) = SmallDriveFree

\* The last fetch of the catalog failed: it returned nothing, or it raised
\* and left "Continue" disabled.
CatalogFailed == data = <<>> \/ ~stage1_continue_enabled

\* C16: after a failed or empty catalog fetch the failure stays: the error
\* page has replaced the drive page's widgets or the exception left the
\* wizard on its first page, and no later step starts a run or fetches again.
C16_NoRunAfterCatalogFailure ==
    [][CatalogFailed =>
            /\ CatalogFailed'
            /\ started' = "no" /\ active_downloads' = <<>>
            /\ stage' = 0
            /\ data' = <<>> => ~stage1_alive'
      ]_vars

\* C16 witness: the catalog came back empty on "Go Back", after the user
\* had already been offered content from the first fetch.
C16_Witness ==
    /\ data = <<>>
    /\ content_checkboxes # <<>>
    /\ ~stage1_alive

\* The slots of a run: the indices of its progress bars.
Slots == 0..(Len(progress_bars) - 1)
\* How many entries of the pending queue, and how many workers, stand for item i.
InQueue(i) == Cardinality({k \in 1..Len(download_queue) : download_queue[k].url = i})
Bound(i) == Cardinality({w \in Workers : active_downloads[w].url = i})
\* The run's tasks are in one place each: every selected item is either once
\* in the pending queue or bound once, to one slot of the run, and a slot
\* hosts at most one worker whose terminal event is not delivered.
OnePlaceEach ==
    /\ \A k \in 1..Len(selected_content_items) :
          InQueue(selected_content_items[k]) + Bound(selected_content_items[k]) = 1
    /\ \A w \in Workers : active_downloads[w].bar_index \in Slots
    /\ \A s \in Slots :
          Cardinality({w \in Workers :
                active_downloads[w].bar_index = s /\ delivered[w] = 0}) <= 1

\* C17: from the start of a run on, every task is in exactly one of pending
\* queue, in flight on one slot, or terminal, no slot hosts two tasks in
\* flight, and a task whose terminal event was delivered stays terminal: it
\* keeps its worker, which never runs or reports again.
C17_TaskInExactlyOnePlace ==
    [][started' # "no" =>
            /\ OnePlaceEach'
            /\ \A w \in Workers :
                  delivered[w] >= 1 =>
                      /\ delivered'[w] = delivered[w]
                      /\ active_downloads'[w] = active_downloads[w]
                      /\ wstate'[w] = wstate[w]
                      /\ ~Emits(w, "result") /\ ~Emits(w, "progress")
      ]_vars

\* C17 witness: one task is terminal, the next is in flight on the slot it
\* freed, and the third is still queued.
C17_Witness ==
    /\ Len(download_queue) = 1
    /\ Len(active_downloads) = 2
    /\ delivered = <<1, 0>>
    /\ wstate[2].pc = "stream"
    /\ active_downloads[2].bar_index = active_downloads[1].bar_index

\* C18: once a run is started no step lowers completed_downloads, and the
\* count never exceeds the total it is compared with nor the number of
\* tasks handed to the run.
C18_CompletedCountMonotoneBounded ==
    [][/\ started # "no" => completed_downloads' >= completed_downloads
       /\ completed_downloads' <= Len(selected_content_items')
       /\ completed_downloads' <= Len(active_downloads') + Len(download_queue')
      ]_vars

\* C18 witness: the count has reached the total of a three-task run step by
\* step, and no event is left to handle.
C18_Witness ==
    /\ completed_downloads = 3
    /\ Len(selected_content_items) = 3
    /\ events = <<>>

\* C19: from the start of a run on, the total that on_download_complete
\* compares the count with is the number of tasks handed to start_downloads
\* (those launched and those still queued), and no step of the run changes it.
C19_TotalIsHandedListLength ==
    [][started' # "no" =>
            /\ ExpectedTotal' = Len(active_downloads') + Len(download_queue')
            /\ started # "no" => ExpectedTotal' = ExpectedTotal
      ]_vars

\* C19 witness: batch-complete has fired for the two items that share a
\* destination path, both handed to the run.
C19_Witness ==
    /\ selected_content_items = <<1, 2>>
    /\ Len(active_downloads) = 2
    /\ stage6_calls = 1

\* C20: from the start of a run on, the number of slots (progress bars)
\* equals the concurrency limit, also when the list is shorter than the limit.
C20_SlotsEqualLimit ==
    started # "no" => Len(progress_bars) = concurrent_downloads

\* C20 as amended: from the start of a run on, the number of slots equals
\* the smaller of the concurrency limit and the length of the task list.
C20_SlotsEqualMinOfLimitAndTasks ==
    started # "no" =>
        Len(progress_bars) = Min(concurrent_downloads, Len(selected_content_items))

\* C20 witness: a run of one task under a limit of 3 has ended with the one
\* slot it was given.
C20_Witness ==
    /\ concurrent_downloads = 3
    /\ Len(selected_content_items) = 1
    /\ Len(progress_bars) = 1
    /\ stage6_calls = 1

\* The step is the call of start_downloads.
StartsRun == started = "no" /\ started' # "no"

\* C21: start_downloads binds slot i to the i-th task of the list, for the
\* first min(limit, length) tasks; handling the terminal event of the worker
\* of slot s binds the head of the queue to slot s and to no other slot; and
\* once the queue is empty no worker is created any more, so a freed slot
\* stays idle.
C21_SlotBinding ==
    [][/\ StartsRun =>
            /\ Len(active_downloads')
                  = Min(concurrent_downloads, Len(selected_content_items))
            /\ \A i \in 1..Len(active_downloads') :
                  /\ active_downloads'[i].url = selected_content_items[i]
                  /\ active_downloads'[i].bar_index = i - 1
       /\ (started # "no" /\ HandlesResult /\ download_queue # <<>>) =>
            /\ Launched = {Len(active_downloads) + 1}
            /\ active_downloads'[Len(active_downloads')].url = Head(download_queue).url
            /\ active_downloads'[Len(active_downloads')].bar_index
                  = active_downloads[Head(events).w].bar_index
            /\ SubSeq(active_downloads', 1, Len(active_downloads)) = active_downloads
       /\ (started # "no" /\ download_queue = <<>>) =>
            /\ active_downloads' = active_downloads
            /\ download_queue' = <<>>
      ]_vars

\* C21 witness: with two slots and three tasks the third task runs on the
\* second slot, the queue is empty, and the first slot, whose worker
\* reported after the refill, is idle.
C21_Witness ==
    /\ concurrent_downloads = 2
    /\ Len(active_downloads) = 3
    /\ active_downloads[3].bar_index = 1
    /\ download_queue = <<>>
    /\ delivered = <<1, 1, 0>>
    /\ wstate[3].pc = "stream"

\* C22: from the call of start_downloads on, batch-complete included, no
\* step changes concurrent_downloads or the pool's maximum thread count, and
\* the run starts with the two equal.
C22_ConcurrencyFixedDuringRun ==
    [][/\ (StartsRun \/ started # "no") =>
            /\ concurrent_downloads' = concurrent_downloads
            /\ maxThreadCount' = maxThreadCount
       /\ started' # "no" => maxThreadCount' = concurrent_downloads'
      ]_vars

\* C22 witness: a run is under way, before batch-complete, with the limit
\* the slider was moved to.
C22_Witness ==
    /\ started # "no"
    /\ stage6_calls = 0
    /\ concurrent_downloads = 2 /\ maxThreadCount = 2
    /\ \E w \in Workers : wstate[w].pc = "stream"
    /\ completed_downloads = 1

\* The destination paths of the tasks of the batch, launched and queued.
BatchPaths ==
    [k \in 1..(Len(active_downloads) + Len(download_queue)) |->
        IF k <= Len(active_downloads) THEN active_downloads[k].file_path
        ELSE download_queue[k - Len(active_downloads)].file_path]

\* C23: any two tasks of a batch have different destination paths, so no two
\* workers are inside run() with the same file.
C23_DistinctDestinationPaths ==
    /\ \A j, k \in 1..Len(BatchPaths) : j # k => BatchPaths[j] # BatchPaths[k]
    /\ \A v, w \in Workers :
          (v # w /\ Transferring(wstate, v) /\ Transferring(wstate, w)) =>
              active_downloads[v].file_path # active_downloads[w].file_path

\* Worker w streams a body with a declared length and the stream has ended
\* after a different number of bytes.
StreamEndedShort(w) ==
    /\ wstate[w].pc = "stream"
    /\ wstate[w].dl = wstate[w].body
    /\ wstate[w].dl # wstate[w].clen

\* C24: when the stream of a response with a declared length ends normally
\* after a different number of bytes, the worker's next step that is not an
\* exception emits the success event, and run() returns.
C24_SizeMismatchEndsInSuccess ==
    [][\A w \in Workers :
            (StreamEndedShort(w) /\ wstate'[w] # wstate[w] /\ wstate'[w].pc # "except") =>
                /\ Emits(w, "result")
                /\ events'[Len(events')].ok
                /\ wstate'[w].pc = "returned"
      ]_vars

\* C24 witness: the only worker of a run reported one chunk of a longer
\* declared length and then success.
C24_Witness ==
    /\ Len(active_downloads) = 1
    /\ events = <<[type |-> "progress", w |-> 1, dl |-> ShortBody, total |-> MaxBody],
                  [type |-> "result", w |-> 1, ok |-> TRUE]>>
    /\ wstate[1].pc = "returned"

\* The step calls go_to_stage6.
FiresBatchComplete == stage6_calls' > stage6_calls

\* C25: the step that fires batch-complete leaves the pending queue empty
\* and no worker in flight: it launches nothing, every worker created has
\* returned from run() and had its terminal event handled, and the count the
\* step reaches is the number of workers.
C25_NothingLeftAtBatchComplete ==
    [][FiresBatchComplete =>
            /\ HandlesResult
            /\ download_queue = <<>> /\ download_queue' = <<>>
            /\ Launched = {}
            /\ \A w \in 1..Len(active_downloads') :
                  /\ delivered'[w] >= 1
                  /\ wstate'[w].pc = "returned"
            /\ completed_downloads' = Len(active_downloads')
      ]_vars

\* C25 witness: batch-complete has fired for three tasks run one after the
\* other on a single slot.
C25_Witness ==
    /\ stage6_calls = 1
    /\ concurrent_downloads = 1
    /\ Len(active_downloads) = 3
    /\ \A w \in Workers : active_downloads[w].bar_index = 0

\* C26: a progress event the coordinator handles comes from a worker whose
\* terminal event it has not handled and which is the last worker bound to
\* its slot; the event changes no other slot's bar, and behind it in the
\* queue no progress event of a worker follows that worker's terminal event.
C26_ProgressFromCurrentTask ==
    [][HandlesProgress =>
            LET w == Head(events).w IN
            /\ delivered[w] = 0
            /\ \A v \in Workers :
                  v > w => active_downloads[v].bar_index # active_downloads[w].bar_index
            /\ \A s \in Slots :
                  s # active_downloads[w].bar_index => progress_bars'[s + 1] = progress_bars[s + 1]
            /\ \A v \in Workers :
                  \A j \in ProgressOf(events, v), k \in ResultPositions(events, v) : j < k
      ]_vars

\* C26 witness: the next event to handle is a progress event of the third
\* task, running on the second slot, whose bar still shows the finished
\* second task.
C26_Witness ==
    /\ Len(active_downloads) = 3
    /\ events # <<>> /\ Head(events).type = "progress" /\ Head(events).w = 3
    /\ active_downloads[3].bar_index = 1
    /\ delivered[2] = 1
    /\ progress_bars[2] = 100

CacheCreationFailed == stage >= Stage5Index /\ started = "no"

\* C28: after the failure the wizard is on the download page with no worker,
\* no queued task, no event and no timer pending, batch-complete has not
\* fired and the process is not aborted; and no step leaves that state.
C28_StuckAfterCacheFailure ==
    [][/\ CacheCreationFailed' =>
            /\ stage' = Stage5Index
            /\ active_downloads' = <<>> /\ download_queue' = <<>>
            /\ events' = <<>> /\ timers' = 0
            /\ stage6_calls' = 0
            /\ ~crashed'
       /\ CacheCreationFailed => CacheCreationFailed'
      ]_vars

\* C28 witness: "Confirm and Download" failed on the cache directories with
\* three items selected; the wizard shows the download page without a bar.
C28_Witness ==
    /\ stage = Stage5Index
    /\ started = "no"
    /\ Len(selected_content_items) = 3
    /\ progress_bars = <<>>

====
